---- MODULE Spec2Model ----
(***************************************************************************)
(* Model of app.py, the NEM12 dashboard script: one straight-line pass     *)
(* over an uploaded table (header location, classification, block slicing, *)
(* reshaping, series building, KPIs, time-of-use averages, daily totals,   *)
(* outliers, forecast).  Cells are sequences of one-character strings so   *)
(* that strip/upper, numeric parsing and date parsing are computed.        *)
(* Row and column indexes are 0-based as in the source; TLA+ sequences are *)
(* 1-based, hence the +1 at every access.                                  *)
(***************************************************************************)
EXTENDS Integers, Sequences, FiniteSets, TLC

\* ------------------------------------------------------------------ bounds
MaxRows == 4
MaxDays == 5

\* ------------------------------------------------------- program constants
HeaderCode == 200
MarkerCol == 3
Hours == 24
OutlierZ == 3
ForecastSteps == 7
NoIdx == -1

\* ------------------------------------------------------------- characters
Digits == <<"0", "1", "2", "3", "4", "5", "6", "7", "8", "9">>

LowerCase == <<"a", "b", "c", "d", "e", "f", "g", "h", "i", "j", "k", "l", "m",
               "n", "o", "p", "q", "r", "s", "t", "u", "v", "w", "x", "y", "z">>

UpperCase == <<"A", "B", "C", "D", "E", "F", "G", "H", "I", "J", "K", "L", "M",
               "N", "O", "P", "Q", "R", "S", "T", "U", "V", "W", "X", "Y", "Z">>

IsDigit(c) == \E i \in 1..10 : Digits[i] = c

DigitVal(c) == (CHOOSE i \in 1..10 : Digits[i] = c) - 1

\* str.upper on one character
UpperChar(c) ==
    IF \E i \in 1..26 : LowerCase[i] = c
    THEN UpperCase[CHOOSE i \in 1..26 : LowerCase[i] = c]
    ELSE c

\* str.upper
Upper(s) == [i \in 1..Len(s) |-> UpperChar(s[i])]

\* str.strip: drop leading and trailing blanks
Strip(s) ==
    LET nonblank == {i \in 1..Len(s) : s[i] # " "}
    IN  IF nonblank = {} THEN <<>>
        ELSE LET lo == CHOOSE i \in nonblank : \A j \in nonblank : i <= j
                 hi == CHOOSE i \in nonblank : \A j \in nonblank : i >= j
             IN  SubSeq(s, lo, hi)

\* a missing cell (read_csv yields NaN for an empty field) is the empty cell
NaNCell == <<>>

\* str(cell): NaN prints as "nan"
Str(cell) == IF cell = NaNCell THEN <<"n", "a", "n">> ELSE cell

RECURSIVE ParseDigits(_)
\* value of a non-empty all-digit string
ParseDigits(s) ==
    IF Len(s) = 0 THEN 0
    ELSE 10 * ParseDigits(SubSeq(s, 1, Len(s) - 1)) + DigitVal(s[Len(s)])

AllDigits(s) == Len(s) > 0 /\ \A i \in 1..Len(s) : IsDigit(s[i])

\* two-digit and four-digit zero-padded formatting (f"{h:02d}", %Y, %m, %d)
Fmt2(n) == <<Digits[((n \div 10) % 10) + 1], Digits[(n % 10) + 1]>>

Fmt4(n) == <<Digits[((n \div 1000) % 10) + 1], Digits[((n \div 100) % 10) + 1]>> \o Fmt2(n % 100)

\* ------------------------------------------------------------ time labels
time_headers_short == [k \in 1..(2 * (Hours - 1)) |-> Fmt2((k - 1) \div 2) \o <<":">> \o Fmt2(30 * ((k - 1) % 2))]

\* [f"{h:02d}:{m:02d}" for h in range(24) for m in (0,30)]
time_headers == [k \in 1..(2 * Hours) |-> Fmt2((k - 1) \div 2) \o <<":">> \o Fmt2(30 * ((k - 1) % 2))]

NSlots == Len(time_headers)

\* new_cols = ["Record", "Date"] + time_headers : column positions (0-based)
RecordCol == 0

DateCol == 1

FirstSlotCol == 2

NCols == FirstSlotCol + NSlots

\* raw.iat[r, c]
Iat(tbl, r, c) == tbl[r + 1][c + 1]

\* ---------------------------------------------------------------- calendar
IsLeap(y) == (y % 4 = 0 /\ y % 100 # 0) \/ y % 400 = 0

DaysIn(y, m) ==
    IF m = 2 THEN (IF IsLeap(y) THEN 29 ELSE 28)
    ELSE IF m \in {4, 6, 9, 11} THEN 30 ELSE 31

\* NaT, the missing timestamp
NaT == [nat |-> TRUE, y |-> 0, m |-> 0, d |-> 0]

MkDate(yy, mm, dd) == [nat |-> FALSE, y |-> yy, m |-> mm, d |-> dd]

\* pd.to_datetime(cell, format="%Y%m%d", errors="coerce") on an 8-character
\* or missing cell: a calendar date inside the datetime64[ns] range, else NaT
ToDate(cell) ==
    IF Len(cell) # 8 \/ ~AllDigits(cell) THEN NaT
    ELSE LET yy == ParseDigits(SubSeq(cell, 1, 4))
             mm == ParseDigits(SubSeq(cell, 5, 6))
             dd == ParseDigits(SubSeq(cell, 7, 8))
         IN  IF yy >= 1678 /\ yy <= 2261 /\ mm >= 1 /\ mm <= 12
                /\ dd >= 1 /\ dd <= DaysIn(yy, mm)
             THEN MkDate(yy, mm, dd)
             ELSE NaT

\* chronological order of timestamps
DateKey(dt) == dt.y * 10000 + dt.m * 100 + dt.d

\* date + pd.Timedelta(days=1)
NextDay(dt) ==
    IF dt.d < DaysIn(dt.y, dt.m) THEN MkDate(dt.y, dt.m, dt.d + 1)
    ELSE IF dt.m < 12 THEN MkDate(dt.y, dt.m + 1, 1)
    ELSE MkDate(dt.y + 1, 1, 1)

RECURSIVE AddDays(_, _)
AddDays(dt, n) == IF n = 0 THEN dt ELSE AddDays(NextDay(dt), n - 1)

\* pd.date_range(start, periods=n, freq="D")
DateRange(start, n) == [i \in 1..n |-> AddDays(start, i - 1)]

\* Date.dt.strftime("%Y-%m-%d")
StrfDate(dt) == Fmt4(dt.y) \o <<"-">> \o Fmt2(dt.m) \o <<"-">> \o Fmt2(dt.d)

NaTStamp == [nat |-> TRUE, y |-> 0, m |-> 0, d |-> 0, hh |-> 0, mi |-> 0]

\* pd.to_datetime("YYYY-MM-DD HH:MM", errors="coerce")
ToDatetime(s) ==
    IF Len(s) # 16
       \/ ~AllDigits(SubSeq(s, 1, 4)) \/ s[5] # "-"
       \/ ~AllDigits(SubSeq(s, 6, 7)) \/ s[8] # "-"
       \/ ~AllDigits(SubSeq(s, 9, 10)) \/ s[11] # " "
       \/ ~AllDigits(SubSeq(s, 12, 13)) \/ s[14] # ":"
       \/ ~AllDigits(SubSeq(s, 15, 16))
    THEN NaTStamp
    ELSE LET yy == ParseDigits(SubSeq(s, 1, 4))
             mm == ParseDigits(SubSeq(s, 6, 7))
             dd == ParseDigits(SubSeq(s, 9, 10))
             h  == ParseDigits(SubSeq(s, 12, 13))
             mn == ParseDigits(SubSeq(s, 15, 16))
         IN  IF yy >= 1678 /\ yy <= 2261 /\ mm >= 1 /\ mm <= 12
                /\ dd >= 1 /\ dd <= DaysIn(yy, mm) /\ h <= 23 /\ mn <= 59
             THEN [nat |-> FALSE, y |-> yy, m |-> mm, d |-> dd, hh |-> h, mi |-> mn]
             ELSE NaTStamp

\* ----------------------------------------------------------------- numbers
NaN == [nan |-> TRUE, v |-> 0]

Num(n) == [nan |-> FALSE, v |-> n]

\* pd.to_numeric(cell, errors="coerce") on cells holding unsigned decimal
\* integers, text or nothing
ToNumeric(cell) == IF AllDigits(cell) THEN Num(ParseDigits(cell)) ELSE NaN

\* .fillna(value)
FillNa(x, value) == IF x.nan THEN Num(value) ELSE x

\* ------------------------------------------------------------ input tables
RECURSIVE FmtNat(_)
\* decimal text of a natural number
FmtNat(n) == IF n < 10 THEN <<Digits[n + 1]>> ELSE FmtNat(n \div 10) \o <<Digits[(n % 10) + 1]>>

\* a record-type 200 row carrying `marker` in column D
HeaderRow(marker) ==
    [c \in 1..NCols |-> IF c = RecordCol + 1 THEN HeaderCode
                        ELSE IF c = MarkerCol + 1 THEN marker
                        ELSE NaNCell]

\* a record-type 300 row: date cell, then the interval cells
DataRow(date, cells) == <<300, date>> \o cells

\* interval cells: 10 at 00:00, 7 at 00:30, text at 23:30, 0 elsewhere
CellsA ==
    [k \in 1..NSlots |-> IF k = 1 THEN <<"1", "0">>
                         ELSE IF k = 2 THEN <<"7">>
                         ELSE IF k = NSlots THEN <<"x">>
                         ELSE <<"0">>]

\* interval cells: missing at 00:00, the text E1 at 00:30, 25 at 12:00
CellsB ==
    [k \in 1..NSlots |-> IF k = 1 THEN NaNCell
                         ELSE IF k = 2 THEN <<"E", "1">>
                         ELSE IF k = 25 THEN <<"2", "5">>
                         ELSE <<"0">>]

\* interval cells of a day whose only non-zero reading is `total` at 00:00
TotalCells(total) == [k \in 1..NSlots |-> IF k = 1 THEN FmtNat(total) ELSE <<"0">>]

Markers == {<<" ", "e", "1">>, <<"B", "1">>, <<"N", "1">>}

DateCells == {<<"2", "0", "2", "4", "0", "2", "2", "9">>,
              <<"2", "0", "2", "4", "1", "2", "3", "1">>}

BadDateCell == <<"2", "0", "2", "3", "0", "2", "2", "9">>

RowKinds ==
    {HeaderRow(mk) : mk \in Markers}
    \cup {DataRow(dc, CellsA) : dc \in DateCells \cup {BadDateCell}}
    \cup {DataRow(<<"2", "0", "2", "4", "0", "2", "2", "9">>, CellsB)}

\* every table of 1..MaxRows rows over RowKinds
SmallTables == UNION {[1..n -> RowKinds] : n \in 1..MaxRows}

\* strftime("%Y%m%d")
DateCellOf(dt) == Fmt4(dt.y) \o Fmt2(dt.m) \o Fmt2(dt.d)

ConsStart == MkDate(2024, 2, 27)

GenStart == MkDate(2024, 12, 29)

\* an E1 block and a B1 block of consecutive days with the given daily totals
MkTable(ctot, gtot) ==
    <<HeaderRow(<<"E", "1">>)>>
    \o [i \in 1..Len(ctot) |-> DataRow(DateCellOf(AddDays(ConsStart, i - 1)), TotalCells(ctot[i]))]
    \o <<HeaderRow(<<"B", "1">>)>>
    \o [i \in 1..Len(gtot) |-> DataRow(DateCellOf(AddDays(GenStart, i - 1)), TotalCells(gtot[i]))]

Totals == {10, 100}

DayTables ==
    {MkTable(ct, gt) : ct \in UNION {[1..n -> Totals] : n \in 1..MaxDays},
                       gt \in {<<10>>, <<10, 10>>, <<10, 100>>}}

\* ten days of 10 followed by one day of 100, against a constant channel
ElevenDayTable == MkTable([i \in 1..11 |-> IF i = 11 THEN 100 ELSE 10], <<10, 10>>)

\* an untagged header and an undated row, then an E1 block whose rows are out
\* of chronological order and repeat a date, then a one-day B1 block
ShuffledTable ==
    <<HeaderRow(<<"N", "1">>),
      DataRow(BadDateCell, CellsA),
      HeaderRow(<<" ", "e", "1">>),
      DataRow(<<"2", "0", "2", "4", "1", "2", "3", "1">>, CellsA),
      DataRow(<<"2", "0", "2", "4", "0", "2", "2", "9">>, CellsB),
      DataRow(<<"2", "0", "2", "4", "1", "2", "3", "1">>, CellsB),
      HeaderRow(<<"B", "1">>),
      DataRow(<<"2", "0", "2", "4", "0", "2", "2", "9">>, CellsA)>>

Tables == SmallTables \cup DayTables \cup {ElevenDayTable, ShuffledTable}

\* ------------------------------------------------------------------- state
VARIABLES raw, pc, error, header_idxs, e1_idx, b1_idx, cons_rng, gen_rng,
          cons_block, gen_block, df_cons, cons_long, df_gen, gen_long,
          kpi, avg_c, avg_g, daily_c, daily_g, out_cons, out_gen, fc1, fc2

vars == <<raw, pc, error, header_idxs, e1_idx, b1_idx, cons_rng, gen_rng,
          cons_block, gen_block, df_cons, cons_long, df_gen, gen_long,
          kpi, avg_c, avg_g, daily_c, daily_g, out_cons, out_gen, fc1, fc2>>

\* state after read_csv and the integer coercion of column 0; nothing derived yet
Init ==
    /\ raw \in Tables
    /\ pc = "locate"
    /\ error = "none"
    /\ header_idxs = <<>>
    /\ e1_idx = NoIdx
    /\ b1_idx = NoIdx
    /\ cons_rng = <<>>
    /\ gen_rng = <<>>
    /\ cons_block = <<>>
    /\ gen_block = <<>>
    /\ df_cons = <<>>
    /\ cons_long = <<>>
    /\ df_gen = <<>>
    /\ gen_long = <<>>
    /\ kpi = <<>>
    /\ avg_c = <<>>
    /\ avg_g = <<>>
    /\ daily_c = <<>>
    /\ daily_g = <<>>
    /\ out_cons = <<>>
    /\ out_gen = <<>>
    /\ fc1 = <<>>
    /\ fc2 = <<>>

\* ---------------------------------------------------------- block locator
RECURSIVE SortedSeq(_)
\* sorted(S) for a finite set of integers
SortedSeq(S) ==
    IF S = {} THEN <<>>
    ELSE LET lo == CHOOSE x \in S : \A y \in S : x <= y
         IN  <<lo>> \o SortedSeq(S \ {lo})

\* raw.index[raw.iloc[:, 0] == 200].tolist()
HeaderIdxs(tbl) == SortedSeq({r \in 0..(Len(tbl) - 1) : Iat(tbl, r, RecordCol) = HeaderCode})

TooFewHeaders_lt1(idxs) == Len(idxs) < 1

\* len(header_idxs) < 2
TooFewHeaders(idxs) == Len(idxs) < 2

\* step 2: locate the Record==200 rows, stop when there are fewer than two
LocateHeaders ==
    /\ pc = "locate"
    /\ header_idxs' = HeaderIdxs(raw)
    /\ IF TooFewHeaders(HeaderIdxs(raw))
       THEN pc' = "stopped" /\ error' = "InsufficientHeaders"
       ELSE pc' = "classify" /\ error' = error
    /\ UNCHANGED <<raw, e1_idx, b1_idx, cons_rng, gen_rng, cons_block, gen_block,
                   df_cons, cons_long, df_gen, gen_long, kpi, avg_c, avg_g,
                   daily_c, daily_g, out_cons, out_gen, fc1, fc2>>

\* str(raw.iat[idx, 3]).strip().upper()
MarkerAt(tbl, idx) == Upper(Strip(Str(Iat(tbl, idx, MarkerCol))))

RECURSIVE ClassifyLoop(_, _, _, _)
\* the for-loop over header_idxs: a later header with the same tag overwrites
ClassifyLoop(tbl, idxs, e1, b1) ==
    IF idxs = <<>> THEN <<e1, b1>>
    ELSE LET marker == MarkerAt(tbl, Head(idxs))
         IN  IF marker = <<"E", "1">> THEN ClassifyLoop(tbl, Tail(idxs), Head(idxs), b1)
             ELSE IF marker = <<"B", "1">> THEN ClassifyLoop(tbl, Tail(idxs), e1, Head(idxs))
             ELSE ClassifyLoop(tbl, Tail(idxs), e1, b1)

\* step 3: classify the headers, stop unless both an E1 and a B1 were found
ClassifyHeaders ==
    /\ pc = "classify"
    /\ LET res == ClassifyLoop(raw, header_idxs, NoIdx, NoIdx)
       IN  /\ e1_idx' = res[1]
           /\ b1_idx' = res[2]
           /\ IF res[1] = NoIdx \/ res[2] = NoIdx
              THEN pc' = "stopped" /\ error' = "MissingChannelTag"
              ELSE pc' = "slice" /\ error' = error
    /\ UNCHANGED <<raw, header_idxs, cons_rng, gen_rng, cons_block, gen_block,
                   df_cons, cons_long, df_gen, gen_long, kpi, avg_c, avg_g,
                   daily_c, daily_g, out_cons, out_gen, fc1, fc2>>

\* all_hdrs = sorted(header_idxs) + [len(raw)]
AllHdrs(tbl, idxs) == idxs \o <<Len(tbl)>>

next_hdr_eof(tbl, idxs, after_idx) == Len(tbl)

\* next_hdr: the first entry of all_hdrs above after_idx, else len(raw)
next_hdr(tbl, idxs, after_idx) ==
    LET all_hdrs == AllHdrs(tbl, idxs)
        above == {i \in 1..Len(all_hdrs) : all_hdrs[i] > after_idx}
    IN  IF above = {} THEN Len(tbl)
        ELSE all_hdrs[CHOOSE i \in above : \A j \in above : i <= j]

\* raw.iloc[start:stop].reset_index(drop=True)
Iloc(tbl, start, stop) == SubSeq(tbl, start + 1, stop)

\* step 5: slice the two blocks
SliceBlocks ==
    /\ pc = "slice"
    /\ cons_rng' = <<e1_idx + 1, next_hdr(raw, header_idxs, e1_idx)>>
    /\ gen_rng' = <<b1_idx + 1, next_hdr(raw, header_idxs, b1_idx)>>
    /\ cons_block' = Iloc(raw, e1_idx + 1, next_hdr(raw, header_idxs, e1_idx))
    /\ gen_block' = Iloc(raw, b1_idx + 1, next_hdr(raw, header_idxs, b1_idx))
    /\ pc' = "reshape"
    /\ UNCHANGED <<raw, error, header_idxs, e1_idx, b1_idx,
                   df_cons, cons_long, df_gen, gen_long, kpi, avg_c, avg_g,
                   daily_c, daily_g, out_cons, out_gen, fc1, fc2>>

\* ---------------------------------------------------------- block reshaper
\* step 6 on one block: name the columns Record, Date, 48 slots and extras,
\* and parse Date with format %Y%m%d
Reshape(block) ==
    [r \in 1..Len(block) |->
        [Record |-> block[r][RecordCol + 1],
         Date   |-> ToDate(block[r][DateCol + 1]),
         slots  |-> SubSeq(block[r], FirstSlotCol + 1, NCols),
         extras |-> SubSeq(block[r], NCols + 1, Len(block[r]))]]

\* step 6: both blocks are renamed and date-parsed in place
ReshapeBlocks ==
    /\ pc = "reshape"
    /\ cons_block' = Reshape(cons_block)
    /\ gen_block' = Reshape(gen_block)
    /\ pc' = "prepare"
    /\ UNCHANGED <<raw, error, header_idxs, e1_idx, b1_idx, cons_rng, gen_rng,
                   df_cons, cons_long, df_gen, gen_long, kpi, avg_c, avg_g,
                   daily_c, daily_g, out_cons, out_gen, fc1, fc2>>

\* ---------------------------------------------------------- series builder
RECURSIVE SumOver(_, _)
\* sum of f[i] over the finite index set I
SumOver(f, I) ==
    IF I = {} THEN 0
    ELSE LET i == CHOOSE x \in I : TRUE IN f[i] + SumOver(f, I \ {i})

\* Series.sum() / DataFrame.sum(axis=1): missing values are skipped
NanSum(xs) == SumOver([i \in 1..Len(xs) |-> IF xs[i].nan THEN 0 ELSE xs[i].v], 1..Len(xs))

\* number of non-missing values
NanCount(xs) == Cardinality({i \in 1..Len(xs) : ~xs[i].nan})

\* Series.mean() / DataFrame.mean(axis=1) as an exact fraction; NaN when empty
NanMean(xs) ==
    IF NanCount(xs) = 0 THEN [nan |-> TRUE, num |-> 0, den |-> 1]
    ELSE [nan |-> FALSE, num |-> NanSum(xs), den |-> NanCount(xs)]

IsNat(dt) == dt.nat

NotNat(row) == ~IsNat(row.Date)

\* df[time_headers].apply(pd.to_numeric, errors="coerce").fillna(0)
NumericSlots(row) == [k \in 1..Len(row.slots) |-> FillNa(ToNumeric(row.slots[k]), 0)]

DailyKwh_skip_first(vals) == NanSum(Tail(vals))

\* df[time_headers].sum(axis=1) for one row
DailyKwh(vals) == NanSum(vals)

\* prepare, wide part: drop rows without a date, coerce, add the daily columns
Wide(block) ==
    LET kept == SelectSeq(block, NotNat)
    IN  [r \in 1..Len(kept) |->
            LET vals == NumericSlots(kept[r])
            IN  [Date          |-> kept[r].Date,
                 vals          |-> vals,
                 Daily_kWh     |-> DailyKwh(vals),
                 Daily_Avg_kWh |-> NanMean(vals)]]

\* df.melt(id_vars=["Date"], value_vars=time_headers): column-major stacking
Melt(df) ==
    [i \in 1..(NSlots * Len(df)) |->
        LET k == ((i - 1) \div Len(df)) + 1
            r == ((i - 1) % Len(df)) + 1
        IN  [Date |-> df[r].Date, Time |-> time_headers[k], kWh |-> df[r].vals[k]]]

HasKwh(row) == ~row.kWh.nan

HasDatetime(row) == ~row.Datetime.nat

\* prepare, long part: melt, drop missing kWh, build Datetime, drop missing
Long(df) ==
    LET melted == SelectSeq(Melt(df), HasKwh)
        stamped == [i \in 1..Len(melted) |->
                       [Date     |-> melted[i].Date,
                        Time     |-> melted[i].Time,
                        kWh      |-> melted[i].kWh.v,
                        Datetime |-> ToDatetime(StrfDate(melted[i].Date) \o <<" ">> \o melted[i].Time)]]
    IN  SelectSeq(stamped, HasDatetime)

\* step 7: prepare(cons_block) and prepare(gen_block)
Prepare ==
    /\ pc = "prepare"
    /\ df_cons' = Wide(cons_block)
    /\ cons_long' = Long(df_cons')
    /\ df_gen' = Wide(gen_block)
    /\ gen_long' = Long(df_gen')
    /\ pc' = "kpi"
    /\ UNCHANGED <<raw, error, header_idxs, e1_idx, b1_idx, cons_rng, gen_rng,
                   cons_block, gen_block, kpi, avg_c, avg_g,
                   daily_c, daily_g, out_cons, out_gen, fc1, fc2>>

\* -------------------------------------------------------------- aggregator
\* code point of the characters that occur in time labels
CharRank(c) == IF IsDigit(c) THEN 48 + DigitVal(c) ELSE IF c = ":" THEN 58 ELSE 32

RECURSIVE LexLess(_, _)
\* string comparison a < b
LexLess(a, b) ==
    IF b = <<>> THEN FALSE
    ELSE IF a = <<>> THEN TRUE
    ELSE IF CharRank(Head(a)) # CharRank(Head(b)) THEN CharRank(Head(a)) < CharRank(Head(b))
    ELSE LexLess(Tail(a), Tail(b))

RECURSIVE InsertLabel(_, _)
\* insert x into a sorted sequence of labels
InsertLabel(x, sorted) ==
    IF sorted = <<>> THEN <<x>>
    ELSE IF LexLess(x, Head(sorted)) THEN <<x>> \o sorted
    ELSE <<Head(sorted)>> \o InsertLabel(x, Tail(sorted))

RECURSIVE SortLabels(_)
\* group keys come out of groupby sorted
SortLabels(S) ==
    IF S = {} THEN <<>>
    ELSE LET x == CHOOSE y \in S : TRUE
         IN  InsertLabel(x, SortLabels(S \ {x}))

\* long.groupby("Time")["kWh"].mean()
GroupMeanByTime(long) ==
    LET keys == SortLabels({long[i].Time : i \in 1..Len(long)})
        means == [g \in 1..Len(keys) |->
                    LET members == {i \in 1..Len(long) : long[i].Time = keys[g]}
                    IN  [Time |-> keys[g],
                         kWh  |-> [nan |-> FALSE,
                                   num |-> SumOver([i \in 1..Len(long) |-> long[i].kWh], members),
                                   den |-> Cardinality(members)]]]
    IN  SubSeq(means, 1, Len(keys))

\* a < b for two non-missing fractions with positive denominators
FracLess(a, b) == a.num * b.den < b.num * a.den

\* Series.idxmax(): the label of the first maximum
IdxMax(series) ==
    LET best == CHOOSE i \in 1..Len(series) :
                    /\ \A j \in 1..Len(series) : ~FracLess(series[i].kWh, series[j].kWh)
                    /\ \A j \in 1..(i - 1) : FracLess(series[j].kWh, series[i].kWh)
    IN  series[best].Time

\* df["Daily_kWh"].sum()
TotalKwh(df) == SumOver([r \in 1..Len(df) |-> df[r].Daily_kWh], 1..Len(df))

\* step 8: totals and peak intervals
KpiCards ==
    /\ pc = "kpi"
    /\ cons_long # <<>>
    /\ gen_long # <<>>
    /\ kpi' = [total_cons |-> TotalKwh(df_cons),
               total_gen  |-> TotalKwh(df_gen),
               net_total  |-> TotalKwh(df_cons) - TotalKwh(df_gen),
               peak_cons  |-> IdxMax(GroupMeanByTime(cons_long)),
               peak_gen   |-> IdxMax(GroupMeanByTime(gen_long))]
    /\ pc' = "tou"
    /\ UNCHANGED <<raw, error, header_idxs, e1_idx, b1_idx, cons_rng, gen_rng,
                   cons_block, gen_block, df_cons, cons_long, df_gen, gen_long,
                   avg_c, avg_g, daily_c, daily_g, out_cons, out_gen, fc1, fc2>>

\* step 8 on an empty long series: idxmax of an empty Series raises ValueError
KpiCardsRaise ==
    /\ pc = "kpi"
    /\ cons_long = <<>> \/ gen_long = <<>>
    /\ pc' = "crashed"
    /\ error' = "ValueError"
    /\ UNCHANGED <<raw, header_idxs, e1_idx, b1_idx, cons_rng, gen_rng,
                   cons_block, gen_block, df_cons, cons_long, df_gen, gen_long,
                   kpi, avg_c, avg_g, daily_c, daily_g, out_cons, out_gen, fc1, fc2>>

\* Series.reindex(labels): one entry per label in the order of `labels`,
\* missing where the series has no such key
Reindex(series, labels) ==
    [k \in 1..Len(labels) |->
        IF \E g \in 1..Len(series) : series[g].Time = labels[k]
        THEN series[CHOOSE g \in 1..Len(series) : series[g].Time = labels[k]]
        ELSE [Time |-> labels[k], kWh |-> [nan |-> TRUE, num |-> 0, den |-> 1]]]

\* 9.1: time-of-use averages of both channels
TimeOfUse ==
    /\ pc = "tou"
    /\ avg_c' = Reindex(GroupMeanByTime(cons_long), time_headers)
    /\ avg_g' = Reindex(GroupMeanByTime(gen_long), time_headers)
    /\ pc' = "daily"
    /\ UNCHANGED <<raw, error, header_idxs, e1_idx, b1_idx, cons_rng, gen_rng,
                   cons_block, gen_block, df_cons, cons_long, df_gen, gen_long,
                   kpi, daily_c, daily_g, out_cons, out_gen, fc1, fc2>>

RECURSIVE SortDates(_)
\* group keys come out of groupby in chronological order
SortDates(S) ==
    IF S = {} THEN <<>>
    ELSE LET lo == CHOOSE x \in S : \A y \in S : DateKey(x) <= DateKey(y)
         IN  <<lo>> \o SortDates(S \ {lo})

\* df.groupby("Date")["Daily_kWh"].sum()
GroupSumByDate(df) ==
    LET keys == SortDates({df[r].Date : r \in 1..Len(df)})
        sums == [g \in 1..Len(keys) |->
                    [Date      |-> keys[g],
                     Daily_kWh |-> SumOver([r \in 1..Len(df) |-> df[r].Daily_kWh],
                                           {r \in 1..Len(df) : df[r].Date = keys[g]})]]
    IN  SubSeq(sums, 1, Len(keys))

\* 9.2 and 9.3: daily totals of both channels
DailyTotals ==
    /\ pc = "daily"
    /\ daily_c' = GroupSumByDate(df_cons)
    /\ daily_g' = GroupSumByDate(df_gen)
    /\ pc' = "outliers"
    /\ UNCHANGED <<raw, error, header_idxs, e1_idx, b1_idx, cons_rng, gen_rng,
                   cons_block, gen_block, df_cons, cons_long, df_gen, gen_long,
                   kpi, avg_c, avg_g, out_cons, out_gen, fc1, fc2>>

\* -------------------------------------------------------- outlier detector
\* pd.DataFrame({"Consumed": ..., "Generated": ...}): the index is the sorted
\* union of both date indexes; a column is missing where its series has no date
DailyIndex(ctot, gtot) ==
    SortDates({ctot[i].Date : i \in 1..Len(ctot)} \cup {gtot[i].Date : i \in 1..Len(gtot)})

Column(index, tot) ==
    LET col == [k \in 1..Len(index) |->
                   IF \E i \in 1..Len(tot) : tot[i].Date = index[k]
                   THEN Num(tot[CHOOSE i \in 1..Len(tot) : tot[i].Date = index[k]].Daily_kWh)
                   ELSE NaN]
    IN  SubSeq(col, 1, Len(index))

\* abs((x - col.mean()) / col.std()) > thr for a non-missing x, with the sample
\* standard deviation (ddof = 1) and floating-point division rules:
\*   fewer than two values  -> std is NaN, z is NaN, comparison False
\*   std = 0 and x = mean   -> 0/0 = NaN, comparison False
\*   std = 0 and x # mean   -> +-inf, comparison True
\*   otherwise z^2 > thr^2, i.e. (n x - S)^2 (n - 1) > thr^2 n (n Q - S^2)
ZExceeds(x, col, thr) ==
    LET n   == NanCount(col)
        S   == NanSum(col)
        Q   == SumOver([i \in 1..Len(col) |-> IF col[i].nan THEN 0 ELSE col[i].v * col[i].v],
                       1..Len(col))
        V   == n * Q - S * S
        dev == n * x - S
    IN  IF n < 2 THEN FALSE
        ELSE IF V = 0 THEN dev # 0
        ELSE dev * dev * (n - 1) > thr * thr * n * V

IsOutlier_nan_true(x, col) ==
    \/ ZExceeds(x, col, OutlierZ)
    \/ NanCount(col) < 2
    \/ \A i, j \in {k \in 1..Len(col) : ~col[k].nan} : col[i].v = col[j].v

IsOutlier_z1(x, col) == ZExceeds(x, col, 1)

\* daily[col + "_z"].abs() > 3 at one row; a missing row compares False
IsOutlier(x, col) == ZExceeds(x, col, OutlierZ)

\* daily.index[daily[col + "_z"].abs() > 3]
OutlierDates(index, col) ==
    LET flagged(k) == ~col[k].nan /\ IsOutlier(col[k].v, col)
        hits == {k \in 1..Len(index) : flagged(k)}
    IN  SortDates({index[k] : k \in hits})

\* 9.6: outliers of both channels
Outliers ==
    /\ pc = "outliers"
    /\ LET ctot  == GroupSumByDate(df_cons)
           gtot  == GroupSumByDate(df_gen)
           index == DailyIndex(ctot, gtot)
       IN  /\ out_cons' = OutlierDates(index, Column(index, ctot))
           /\ out_gen' = OutlierDates(index, Column(index, gtot))
    /\ pc' = "forecast"
    /\ UNCHANGED <<raw, error, header_idxs, e1_idx, b1_idx, cons_rng, gen_rng,
                   cons_block, gen_block, df_cons, cons_long, df_gen, gen_long,
                   kpi, avg_c, avg_g, daily_c, daily_g, fc1, fc2>>

\* -------------------------------------------------------------- forecaster
\* ARIMA(series, order=(1,1,1)).fit(): the numerical library either returns a
\* fitted model or raises; app.py does not determine which, except that an
\* empty series cannot be fitted
FitOutcomes(series) == IF Len(series) = 0 THEN {"raise"} ELSE {"ok", "raise"}

\* get_forecast(steps=7).predicted_mean: seven predictions, opaque values
PredictedMean(channel) == [i \in 1..ForecastSteps |-> <<channel, i>>]

\* daily_cons.index.max()
IndexMax(series) ==
    series[CHOOSE i \in 1..Len(series) :
               \A j \in 1..Len(series) : DateKey(series[j].Date) <= DateKey(series[i].Date)].Date

\* fc.index = fc_idx
WithIndex(values, index) == [i \in 1..Len(values) |-> [date |-> index[i], value |-> values[i]]]

\* 9.7, both fits succeed: one fc_idx, built from the consumption series, is
\* assigned to both forecasts
Forecast ==
    /\ pc = "forecast"
    /\ "ok" \in FitOutcomes(GroupSumByDate(df_cons))
    /\ "ok" \in FitOutcomes(GroupSumByDate(df_gen))
    /\ LET daily_cons == GroupSumByDate(df_cons)
           start      == NextDay(IndexMax(daily_cons))
           fc_idx     == DateRange(start, ForecastSteps)
       IN  /\ fc1' = WithIndex(PredictedMean("cons"), fc_idx)
           /\ fc2' = WithIndex(PredictedMean("gen"), fc_idx)
    /\ pc' = "done"
    /\ UNCHANGED <<raw, error, header_idxs, e1_idx, b1_idx, cons_rng, gen_rng,
                   cons_block, gen_block, df_cons, cons_long, df_gen, gen_long,
                   kpi, avg_c, avg_g, daily_c, daily_g, out_cons, out_gen>>

\* 9.7, the consumption fit raises: the exception ends the script
ForecastConsRaise ==
    /\ pc = "forecast"
    /\ "raise" \in FitOutcomes(GroupSumByDate(df_cons))
    /\ pc' = "crashed"
    /\ error' = "ArimaCons"
    /\ UNCHANGED <<raw, header_idxs, e1_idx, b1_idx, cons_rng, gen_rng,
                   cons_block, gen_block, df_cons, cons_long, df_gen, gen_long,
                   kpi, avg_c, avg_g, daily_c, daily_g, out_cons, out_gen, fc1, fc2>>

\* 9.7, the consumption fit returns and the generation fit raises: the
\* exception ends the script before any forecast is indexed or drawn
ForecastGenRaise ==
    /\ pc = "forecast"
    /\ "ok" \in FitOutcomes(GroupSumByDate(df_cons))
    /\ "raise" \in FitOutcomes(GroupSumByDate(df_gen))
    /\ pc' = "crashed"
    /\ error' = "ArimaGen"
    /\ UNCHANGED <<raw, header_idxs, e1_idx, b1_idx, cons_rng, gen_rng,
                   cons_block, gen_block, df_cons, cons_long, df_gen, gen_long,
                   kpi, avg_c, avg_g, daily_c, daily_g, out_cons, out_gen, fc1, fc2>>

\* ------------------------------------------------------------ specification
Next ==
    \/ LocateHeaders
    \/ ClassifyHeaders
    \/ SliceBlocks
    \/ ReshapeBlocks
    \/ Prepare
    \/ KpiCards
    \/ KpiCardsRaise
    \/ TimeOfUse
    \/ DailyTotals
    \/ Outliers
    \/ Forecast
    \/ ForecastConsRaise
    \/ ForecastGenRaise

Spec == Init /\ [][Next]_vars

\* ---------------------------------------------------------------- stages
Arima == {"ArimaCons", "ArimaGen"}

\* the blocks have been sliced
Sliced == pc \notin {"locate", "classify", "slice", "stopped"}

\* prepare has returned for both channels
Prepared == pc \in {"kpi", "tou", "daily", "outliers", "forecast", "done", "crashed"}

\* the time-of-use and daily-total tabs have been computed
DailyDone == pc \in {"outliers", "forecast", "done"} \/ (pc = "crashed" /\ error \in Arima)

\* the outlier tab has been computed
OutliersDone == pc \in {"forecast", "done"} \/ (pc = "crashed" /\ error \in Arima)

\* no derived value exists yet
NothingComputed ==
    /\ cons_rng = <<>> /\ gen_rng = <<>> /\ cons_block = <<>> /\ gen_block = <<>>
    /\ df_cons = <<>> /\ cons_long = <<>> /\ df_gen = <<>> /\ gen_long = <<>>
    /\ kpi = <<>> /\ avg_c = <<>> /\ avg_g = <<>> /\ daily_c = <<>> /\ daily_g = <<>>
    /\ out_cons = <<>> /\ out_gen = <<>> /\ fc1 = <<>> /\ fc2 = <<>>

\* 0-based indexes of the record-200 rows of the table
HeaderRows == {r \in 0..(Len(raw) - 1) : raw[r + 1][1] = 200}

\* header rows whose column D reads `tag` after trimming and upper-casing
Tagged(tag) == {r \in HeaderRows : MarkerAt(raw, r) = tag}

\* end of the block opened by header h: the next record-200 row, else the table length
BlockEnd(h) ==
    LET later == {r \in HeaderRows : r > h}
    IN  IF later = {} THEN Len(raw) ELSE CHOOSE r \in later : \A q \in later : r <= q

\* ------------------------------------------------------------------ claims
\* C1: once the blocks are sliced, each channel's block is exactly the rows
\* [h+1, e) with h the channel's header row and e the next record-200 row of
\* any tag (or the table length); a block holds no header row and the two
\* blocks do not overlap.
C1_BlockIsHeaderDelimitedRange ==
    Sliced =>
        /\ e1_idx \in Tagged(<<"E", "1">>)
        /\ b1_idx \in Tagged(<<"B", "1">>)
        /\ cons_rng = <<e1_idx + 1, BlockEnd(e1_idx)>>
        /\ gen_rng = <<b1_idx + 1, BlockEnd(b1_idx)>>
        /\ \A r \in HeaderRows : ~(cons_rng[1] <= r /\ r < cons_rng[2])
        /\ \A r \in HeaderRows : ~(gen_rng[1] <= r /\ r < gen_rng[2])
        /\ \A r \in 0..(Len(raw) - 1) :
               ~(cons_rng[1] <= r /\ r < cons_rng[2] /\ gen_rng[1] <= r /\ r < gen_rng[2])
        /\ pc = "reshape" =>
               /\ cons_block = [i \in 1..(cons_rng[2] - cons_rng[1]) |-> raw[cons_rng[1] + i]]
               /\ gen_block = [i \in 1..(gen_rng[2] - gen_rng[1]) |-> raw[gen_rng[1] + i]]

\* a sliced table with three headers whose consumption block is non-empty and
\* ends before the end of the table
C1_Witness ==
    /\ pc = "reshape"
    /\ Len(header_idxs) >= 3
    /\ Len(cons_block) > 0
    /\ cons_rng[2] < Len(raw)

\* C2: with fewer than two record-200 rows, or no E1 header, or no B1 header,
\* the run stops with InsufficientHeaders, respectively MissingChannelTag,
\* and nothing is sliced or derived.
C2_BadHeadersStopTheRun ==
    (Cardinality(HeaderRows) < 2 \/ Tagged(<<"E", "1">>) = {} \/ Tagged(<<"B", "1">>) = {}) =>
        /\ pc \in {"locate", "classify", "stopped"}
        /\ NothingComputed
        /\ pc = "classify" => Cardinality(HeaderRows) >= 2
        /\ pc = "stopped" =>
               error = IF Cardinality(HeaderRows) < 2 THEN "InsufficientHeaders"
                       ELSE "MissingChannelTag"

\* a run stopped for a missing tag although it has two or more headers
C2_Witness ==
    /\ pc = "stopped"
    /\ error = "MissingChannelTag"
    /\ Cardinality(HeaderRows) >= 2
    /\ Tagged(<<"E", "1">>) # {}

\* sum of the kWh of the long rows dated d
LongSum(long, d) ==
    SumOver([i \in 1..Len(long) |-> long[i].kWh], {i \in 1..Len(long) : long[i].Date = d})

\* sum of the Daily_kWh of the wide rows dated d
WideSum(df, d) ==
    SumOver([r \in 1..Len(df) |-> df[r].Daily_kWh], {r \in 1..Len(df) : df[r].Date = d})

\* sum of the readable interval cells of the reshaped block's rows dated d
CellSum(block, d) ==
    SumOver([r \in 1..Len(block) |->
                SumOver([k \in 1..Len(block[r].slots) |->
                            IF AllDigits(block[r].slots[k]) THEN ParseDigits(block[r].slots[k]) ELSE 0],
                        1..Len(block[r].slots))],
            {r \in 1..Len(block) : block[r].Date = d})

TotalsOf(daily) == [i \in 1..Len(daily) |-> daily[i].Daily_kWh]

\* d occurs in the date sequence
InDates(dates, d) == \E i \in 1..Len(dates) : dates[i] = d

\* C4 as stated: with consumption daily totals 10,10,10,10,100 the day of
\* 100 is flagged and the four days of 10 are not.
C4_HundredIsFlagged ==
    (OutliersDone /\ TotalsOf(daily_c) = <<10, 10, 10, 10, 100>>) =>
        /\ InDates(out_cons, daily_c[5].Date)
        /\ \A i \in 1..4 : ~InDates(out_cons, daily_c[i].Date)

\* C4 amended: with consumption daily totals 10,10,10,10,100 no day is
\* flagged; the z-score of 100 under the sample standard deviation is about
\* 1.79, which is not above 3.
C4_NoDayIsFlagged ==
    (OutliersDone /\ TotalsOf(daily_c) = <<10, 10, 10, 10, 100>>) => out_cons = <<>>

\* the outlier tab has run on consumption totals 10,10,10,10,100
C4_Witness == OutliersDone /\ TotalsOf(daily_c) = <<10, 10, 10, 10, 100>>

\* the date part of a forecast
DatesOf(fc) == [i \in 1..Len(fc) |-> fc[i].date]

\* the n calendar days that follow the last date of a daily-total series
DaysAfter(daily, n) == [i \in 1..n |-> AddDays(daily[Len(daily)].Date, i)]

\* C5: each channel's forecast is 7 pairs dated with the 7 days that follow
\* that channel's own last observed date.
C5_ForecastDatesFollowOwnChannel ==
    pc = "done" =>
        /\ Len(fc1) = 7
        /\ Len(fc2) = 7
        /\ DatesOf(fc1) = DaysAfter(daily_c, 7)
        /\ DatesOf(fc2) = DaysAfter(daily_g, 7)

\* C6: a failed fit of one channel does not abort the run; the other
\* channel's forecast is still produced.
C6_FitFailureIsContained ==
    error \in Arima =>
        /\ pc # "crashed"
        /\ error = "ArimaCons" => fc2 # <<>>
        /\ error = "ArimaGen" => fc1 # <<>>

\* the series is constant or has fewer than two days
Degenerate(daily) == Len(daily) < 2 \/ \A i, j \in 1..Len(daily) : daily[i].Daily_kWh = daily[j].Daily_kWh

\* the dates of a channel whose z-score, from that channel's own totals alone,
\* is above 3 in absolute value
OwnOutliers(daily) ==
    LET n == Len(daily)
        S == SumOver(TotalsOf(daily), 1..n)
        Q == SumOver([i \in 1..n |-> daily[i].Daily_kWh * daily[i].Daily_kWh], 1..n)
        hit(i) == (n * daily[i].Daily_kWh - S) * (n * daily[i].Daily_kWh - S) * (n - 1)
                      > 9 * n * (n * Q - S * S)
    IN  SortDates({daily[i].Date : i \in {j \in 1..n : hit(j)}})

\* C7: a channel whose daily totals are constant or fewer than two flags no
\* day, the outlier tab raises nothing, and the other channel's outliers are
\* those of its own totals.
C7_DegenerateChannelFlagsNothing ==
    OutliersDone =>
        /\ error \in Arima \cup {"none"}
        /\ Degenerate(daily_c) => (out_cons = <<>> /\ (~Degenerate(daily_g) => out_gen = OwnOutliers(daily_g)))
        /\ Degenerate(daily_g) => (out_gen = <<>> /\ (~Degenerate(daily_c) => out_cons = OwnOutliers(daily_c)))

\* a constant two-day generation channel beside a consumption channel with a
\* flagged day
C7_Witness ==
    /\ OutliersDone
    /\ Len(daily_g) = 2
    /\ Degenerate(daily_g)
    /\ out_gen = <<>>
    /\ out_cons # <<>>

\* C8: classification succeeds only when exactly one header is tagged E1 and
\* exactly one is tagged B1.
C8_DuplicateTagFailsClassification ==
    (Cardinality(Tagged(<<"E", "1">>)) # 1 \/ Cardinality(Tagged(<<"B", "1">>)) # 1) =>
        pc \in {"locate", "classify", "stopped"}

\* C9: an empty DailySeries and LongSeries of a channel are not a failure;
\* the run continues through the downstream steps without raising.
C9_EmptyBlockIsNotAFailure ==
    (Prepared /\ (df_cons = <<>> \/ df_gen = <<>>)) =>
        /\ cons_long = <<>> <=> df_cons = <<>>
        /\ gen_long = <<>> <=> df_gen = <<>>
        /\ pc # "crashed"
        /\ error = "none"

\* C10: for a non-empty LongSeries the time-of-day average table has exactly
\* 48 entries, one per half-hour label, in the order 00:00, 00:30, ..., 23:30.
C10_TimeOfDayTableIsCanonical ==
    DailyDone =>
        /\ cons_long # <<>> =>
               /\ Len(avg_c) = 48
               /\ \A h \in 0..23 :
                      /\ avg_c[2 * h + 1].Time = Fmt2(h) \o <<":", "0", "0">>
                      /\ avg_c[2 * h + 2].Time = Fmt2(h) \o <<":", "3", "0">>
        /\ gen_long # <<>> =>
               /\ Len(avg_g) = 48
               /\ \A h \in 0..23 :
                      /\ avg_g[2 * h + 1].Time = Fmt2(h) \o <<":", "0", "0">>
                      /\ avg_g[2 * h + 2].Time = Fmt2(h) \o <<":", "3", "0">>

\* time-of-day averages computed from several days whose rows are not in
\* chronological order
C10_Witness ==
    /\ DailyDone
    /\ \E r, q \in 1..Len(df_cons) : r < q /\ DateKey(df_cons[r].Date) > DateKey(df_cons[q].Date)
    /\ Len(df_gen) >= 1
    /\ avg_c[1].Time = <<"0", "0", ":", "0", "0">>
    /\ avg_c[48].Time = <<"2", "3", ":", "3", "0">>
    /\ \E i \in 1..Len(avg_c) : avg_c[i].kWh.num > 0

====
